---- MODULE Spec2Model ----
(***************************************************************************)
(* Model of the block-header tools of time-masternode:                     *)
(*   migrate_blocks.py  legacy parser (parse_old_block_header), the V2     *)
(*                      encoder (serialize_new_block_header) and the CLI   *)
(*   inspect_db.py      read_varint and the diagnostic decode_block_header *)
(*                                                                         *)
(* Representation.  A byte string is a sequence over 0..255.  A Python int *)
(* is unbounded, so an unsigned integer is kept as its canonical           *)
(* little-endian base-256 digits (no trailing zero digit, zero = << >>);   *)
(* a signed one as [neg, mag].  Packing pads the digits to the field       *)
(* width and unpacking strips them, so every fixed-width conversion is     *)
(* computed and none is the identity.  A str is a sequence of code points. *)
(***************************************************************************)
EXTENDS Integers, Sequences, FiniteSets, TLC

(***************************************************************************)
(* Bytes, slices and unbounded naturals                                    *)
(***************************************************************************)
Min(a, b) == IF a <= b THEN a ELSE b

Max(S) == CHOOSE x \in S : \A y \in S : y <= x

Zeros(n) == [i \in 1..n |-> 0]

Fill(b, n) == [i \in 1..n |-> b]

\* data[a:b] for 0 <= a <= b: the bytes at 0-based positions a..b-1 that exist.
\* A slice never fails; past the end it is shorter, or empty.
Slice(data, a, b) ==
    LET lo == Min(a, Len(data))
        hi == Min(b, Len(data))
    IN  IF lo < hi THEN SubSeq(data, lo + 1, hi) ELSE << >>

RECURSIVE Strip(_)
\* canonical digits: drop the high-order zero digits
Strip(d) ==
    IF d = << >> THEN << >>
    ELSE IF d[Len(d)] = 0 THEN Strip(SubSeq(d, 1, Len(d) - 1))
    ELSE d

RECURSIVE Digits(_)
\* the digits of a small natural
Digits(n) == IF n = 0 THEN << >> ELSE <<n % 256>> \o Digits(n \div 256)

\* Lengths and positions are small naturals in every buffer considered; a
\* number of four digits or more is past the end of any such buffer, and is
\* kept as Huge, which slices and compares exactly as the number itself does.
Huge == 256 * 256 * 256

IntOf(d) ==
    IF Len(d) > 3 THEN Huge
    ELSE (IF Len(d) >= 1 THEN d[1] ELSE 0)
       + (IF Len(d) >= 2 THEN (256 * d[2]) ELSE 0)
       + (IF Len(d) >= 3 THEN (65536 * d[3]) ELSE 0)

RECURSIVE Inc(_)
Inc(d) ==
    IF d = << >> THEN <<1>>
    ELSE IF d[1] < 255 THEN <<d[1] + 1>> \o Tail(d)
    ELSE <<0>> \o Inc(Tail(d))

RECURSIVE Dec(_)
\* d - 1 for d # 0 (digits, not necessarily canonical afterwards)
Dec(d) ==
    IF d[1] > 0 THEN <<d[1] - 1>> \o Tail(d)
    ELSE <<255>> \o Dec(Tail(d))

Invert(b) == [i \in 1..Len(b) |-> 255 - b[i]]

\* an exception leaves the function: no value, no position
Raise(kind) == [raised |-> TRUE, exc |-> kind]

Ret(v, p) == [raised |-> FALSE, val |-> v, pos |-> p]

(***************************************************************************)
(* struct.pack / struct.unpack / int.to_bytes / int.from_bytes             *)
(***************************************************************************)
\* struct.unpack('<I' | '<H' | '<Q', b): exactly w bytes or struct.error
unpack_unsigned(b, w) ==
    IF Len(b) # w THEN Raise("struct.error") ELSE [raised |-> FALSE, val |-> Strip(b)]

\* struct.unpack('<q', b): two's complement
unpack_q(b) ==
    IF Len(b) # 8 THEN Raise("struct.error")
    ELSE IF b[8] >= 128
         THEN [raised |-> FALSE, val |-> [neg |-> TRUE, mag |-> Strip(Inc(Invert(b)))]]
         ELSE [raised |-> FALSE, val |-> [neg |-> FALSE, mag |-> Strip(b)]]

\* struct.pack('<I' | '<Q', v): struct.error unless 0 <= v < 2^(8w)
pack_unsigned(v, w) ==
    IF Len(v) > w THEN Raise("struct.error")
    ELSE [raised |-> FALSE, val |-> v \o Zeros(w - Len(v))]

\* struct.pack('<q', v): struct.error unless -2^63 <= v < 2^63
pack_q(v) ==
    IF ~v.neg
    THEN IF Len(v.mag) > 8 \/ (Len(v.mag) = 8 /\ v.mag[8] >= 128)
         THEN Raise("struct.error")
         ELSE [raised |-> FALSE, val |-> v.mag \o Zeros(8 - Len(v.mag))]
    ELSE LET m == Strip(Dec(v.mag))
         IN  IF Len(m) > 8 \/ (Len(m) = 8 /\ m[8] >= 128)
             THEN Raise("struct.error")
             ELSE [raised |-> FALSE, val |-> Invert(m \o Zeros(8 - Len(m)))]

\* int.from_bytes(b, 'little'): any length, the empty string is 0
int_from_bytes(b) == Strip(b)

\* v.to_bytes(16, 'little'): OverflowError when it does not fit
int_to_bytes(v, w) ==
    IF Len(v) > w THEN Raise("OverflowError")
    ELSE [raised |-> FALSE, val |-> v \o Zeros(w - Len(v))]

(***************************************************************************)
(* str.encode('utf-8') and bytes.decode('utf-8', errors=...)               *)
(***************************************************************************)
IsSurrogate(cp) == cp >= 55296 /\ cp <= 57343

ReplacementChar == 65533

encode_cp(cp) ==
    IF cp < 128 THEN <<cp>>
    ELSE IF cp < 2048 THEN <<192 + (cp \div 64), 128 + (cp % 64)>>
    ELSE IF cp < 65536
         THEN <<224 + (cp \div 4096), 128 + ((cp \div 64) % 64), 128 + (cp % 64)>>
    ELSE <<240 + (cp \div 262144), 128 + ((cp \div 4096) % 64),
           128 + ((cp \div 64) % 64), 128 + (cp % 64)>>

RECURSIVE encode_all(_)
encode_all(s) == IF s = << >> THEN << >> ELSE encode_cp(Head(s)) \o encode_all(Tail(s))

\* s.encode('utf-8'): UnicodeEncodeError on a lone surrogate
str_encode(s) ==
    IF \E i \in 1..Len(s) : IsSurrogate(s[i]) THEN Raise("UnicodeEncodeError")
    ELSE [raised |-> FALSE, val |-> encode_all(s)]

\* number of continuation bytes a lead byte announces; 0 for a byte that
\* cannot start a sequence (80..C1, F5..FF)
ContCount(b) ==
    IF b >= 194 /\ b <= 223 THEN 1
    ELSE IF b >= 224 /\ b <= 239 THEN 2
    ELSE IF b >= 240 /\ b <= 244 THEN 3
    ELSE 0

\* the range the j-th continuation byte of lead b must lie in
ContLo(b, j) == IF j = 1 /\ b = 224 THEN 160 ELSE IF j = 1 /\ b = 240 THEN 144 ELSE 128

ContHi(b, j) == IF j = 1 /\ b = 237 THEN 159 ELSE IF j = 1 /\ b = 244 THEN 143 ELSE 191

\* one decoding step at 1-based index i: a code point, or an ill-formed
\* subsequence ending before index next
decode_step(b, i) ==
    LET lead == b[i]
        n    == ContCount(lead)
        good(j) == i + j <= Len(b) /\ b[i + j] >= ContLo(lead, j) /\ b[i + j] <= ContHi(lead, j)
        bad  == {j \in 1..n : ~good(j)}
        firstbad == CHOOSE j \in bad : \A k \in bad : j <= k
    IN  IF lead < 128 THEN [ok |-> TRUE, cp |-> lead, next |-> i + 1]
        ELSE IF n = 0 THEN [ok |-> FALSE, cp |-> ReplacementChar, next |-> i + 1]
        ELSE IF bad # {} THEN [ok |-> FALSE, cp |-> ReplacementChar, next |-> i + firstbad]
        ELSE IF n = 1 THEN [ok |-> TRUE, cp |-> ((lead - 192) * 64) + (b[i + 1] - 128), next |-> i + 2]
        ELSE IF n = 2
             THEN [ok |-> TRUE,
                   cp |-> ((lead - 224) * 4096) + ((b[i + 1] - 128) * 64) + (b[i + 2] - 128),
                   next |-> i + 3]
        ELSE [ok |-> TRUE,
              cp |-> ((lead - 240) * 262144) + ((b[i + 1] - 128) * 4096)
                     + ((b[i + 2] - 128) * 64) + (b[i + 3] - 128),
              next |-> i + 4]

RECURSIVE decode_from(_, _, _)
decode_from(b, i, replace) ==
    IF i > Len(b) THEN [raised |-> FALSE, val |-> << >>]
    ELSE LET st == decode_step(b, i)
         IN  IF ~st.ok /\ ~replace THEN Raise("UnicodeDecodeError")
             ELSE LET rest == decode_from(b, st.next, replace)
                  IN  IF rest.raised THEN rest
                      ELSE [raised |-> FALSE, val |-> <<st.cp>> \o rest.val]

\* b.decode('utf-8'): UnicodeDecodeError on an ill-formed sequence
bytes_decode_strict(b) == decode_from(b, 1, FALSE)

\* b.decode('utf-8', errors='replace'): never fails, U+FFFD per ill-formed
\* subsequence
bytes_decode_replace(b) == decode_from(b, 1, TRUE).val

(***************************************************************************)
(* migrate_blocks.py: readers                                              *)
(***************************************************************************)
\* a hash is a raw 32-byte copy
HashLen == 32

read_u32_le(data, pos) ==
    LET u == unpack_unsigned(Slice(data, pos, pos + 4), 4)
    IN  IF u.raised THEN u ELSE Ret(u.val, pos + 4)

read_u64_le(data, pos) ==
    LET u == unpack_unsigned(Slice(data, pos, pos + 8), 8)
    IN  IF u.raised THEN u ELSE Ret(u.val, pos + 8)

\* the timestamp read as unsigned ('<Q' for '<q')
read_i64_le_unsigned(data, pos) ==
    LET u == unpack_unsigned(Slice(data, pos, pos + 8), 8)
    IN  IF u.raised THEN u ELSE Ret([neg |-> FALSE, mag |-> u.val], pos + 8)

read_i64_le(data, pos) ==
    LET u == unpack_q(Slice(data, pos, pos + 8))
    IN  IF u.raised THEN u ELSE Ret(u.val, pos + 8)

read_u128_le(data, pos) == Ret(int_from_bytes(Slice(data, pos, pos + 16)), pos + 16)

read_hash256(data, pos) == Ret(Slice(data, pos, pos + HashLen), pos + HashLen)

read_string(data, pos) ==
    LET l == read_u64_le(data, pos)
    IN  IF l.raised THEN l
        ELSE LET length == IntOf(l.val)
                 s == bytes_decode_strict(Slice(data, l.pos, l.pos + length))
             IN  IF s.raised THEN s ELSE Ret(s.val, l.pos + length)

(***************************************************************************)
(* migrate_blocks.py: writers.  Each yields [raised, val].                 *)
(***************************************************************************)
write_u32_le(value) == pack_unsigned(value, 4)

write_u64_le(value) == pack_unsigned(value, 8)

write_i64_le(value) == pack_q(value)

write_u128_le(value) == int_to_bytes(value, 16)

write_hash256(value) == [raised |-> FALSE, val |-> value]

\* a + b on two results: the first exception wins
Cat(a, b) ==
    IF a.raised THEN a
    ELSE IF b.raised THEN b
    ELSE [raised |-> FALSE, val |-> a.val \o b.val]

write_string(s) ==
    LET encoded == str_encode(s)
    IN  IF encoded.raised THEN encoded
        ELSE Cat(write_u64_le(Digits(Len(encoded.val))), encoded)

write_vec_u8(data) == Cat(write_u64_le(Digits(Len(data))), [raised |-> FALSE, val |-> data])

\* value is None, True or False
write_option_bool(value) ==
    IF value = "None" THEN [raised |-> FALSE, val |-> <<0>>]
    ELSE [raised |-> FALSE, val |-> <<1>> \o (IF value = "True" THEN <<1>> ELSE <<0>>)]

(***************************************************************************)
(* migrate_blocks.py: the legacy parser and the V2 encoder                 *)
(***************************************************************************)
parse_old_block_header(data, pos) ==
    LET version == read_u32_le(data, pos) IN
    IF version.raised THEN version ELSE
    LET height == read_u64_le(data, version.pos) IN
    IF height.raised THEN height ELSE
    LET timestamp == read_i64_le(data, height.pos) IN
    IF timestamp.raised THEN timestamp ELSE
    LET previous_hash == read_hash256(data, timestamp.pos)
        merkle_root   == read_hash256(data, previous_hash.pos)
        leader        == read_string(data, merkle_root.pos)
    IN
    IF leader.raised THEN leader ELSE
    LET block_reward == read_u64_le(data, leader.pos) IN
    IF block_reward.raised THEN block_reward ELSE
    LET vrf_output       == read_hash256(data, block_reward.pos)
        vrf_score        == read_u128_le(data, vrf_output.pos)
        attestation_root == read_hash256(data, vrf_score.pos)
    IN  Ret([version          |-> version.val,
             height           |-> height.val,
             timestamp        |-> timestamp.val,
             previous_hash    |-> previous_hash.val,
             merkle_root      |-> merkle_root.val,
             leader           |-> leader.val,
             block_reward     |-> block_reward.val,
             vrf_output       |-> vrf_output.val,
             vrf_score        |-> vrf_score.val,
             attestation_root |-> attestation_root.val],
            attestation_root.pos)

\* vrf_score written after attestation_root
serialize_new_block_header_reordered(header) ==
    LET v1 == Cat(Cat(Cat(Cat(Cat(Cat(Cat(Cat(Cat(
                  write_u32_le(header.version),
                  write_u64_le(header.height)),
                  write_i64_le(header.timestamp)),
                  write_hash256(header.previous_hash)),
                  write_hash256(header.merkle_root)),
                  write_string(header.leader)),
                  write_u64_le(header.block_reward)),
                  write_hash256(header.vrf_output)),
                  write_hash256(header.attestation_root)),
                  write_u128_le(header.vrf_score))
        tiers == Cat(Cat(Cat(write_u32_le(<< >>), write_u32_le(<< >>)),
                     write_u32_le(<< >>)), write_u32_le(<< >>))
    IN  Cat(Cat(Cat(Cat(v1, tiers), write_vec_u8(<< >>)), write_vec_u8(<< >>)),
            write_option_bool("None"))

serialize_new_block_header(header) ==
    LET v1 == Cat(Cat(Cat(Cat(Cat(Cat(Cat(Cat(Cat(
                  write_u32_le(header.version),
                  write_u64_le(header.height)),
                  write_i64_le(header.timestamp)),
                  write_hash256(header.previous_hash)),
                  write_hash256(header.merkle_root)),
                  write_string(header.leader)),
                  write_u64_le(header.block_reward)),
                  write_hash256(header.vrf_output)),
                  write_u128_le(header.vrf_score)),
                  write_hash256(header.attestation_root))
        tiers == Cat(Cat(Cat(write_u32_le(<< >>), write_u32_le(<< >>)),
                     write_u32_le(<< >>)), write_u32_le(<< >>))
    IN  Cat(Cat(Cat(Cat(v1, tiers), write_vec_u8(<< >>)), write_vec_u8(<< >>)),
            write_option_bool("None"))

(***************************************************************************)
(* inspect_db.py: read_varint and decode_block_header                      *)
(***************************************************************************)
\* (None, offset)
VarintNone(offset) == [none |-> TRUE, val |-> << >>, pos |-> offset]

VarintSome(v, p) == [none |-> FALSE, val |-> v, pos |-> p]

\* the one-byte range taken one too far (first_byte <= 251)
read_varint_off_by_one(data, offset) ==
    IF offset >= Len(data) THEN VarintNone(offset)
    ELSE LET first_byte == data[offset + 1]
         IN  IF first_byte <= 251 THEN VarintSome(Digits(first_byte), offset + 1)
             ELSE IF first_byte = 252
                  THEN IF offset + 4 >= Len(data) THEN VarintNone(offset)
                       ELSE VarintSome(unpack_unsigned(Slice(data, offset + 1, offset + 5), 4).val,
                                       offset + 5)
             ELSE IF first_byte = 253
                  THEN IF offset + 8 >= Len(data) THEN VarintNone(offset)
                       ELSE VarintSome(unpack_unsigned(Slice(data, offset + 1, offset + 9), 8).val,
                                       offset + 9)
             ELSE VarintNone(offset)

read_varint(data, offset) ==
    IF offset >= Len(data) THEN VarintNone(offset)
    ELSE LET first_byte == data[offset + 1]
         IN  IF first_byte < 251 THEN VarintSome(Digits(first_byte), offset + 1)
             ELSE IF first_byte = 251
                  THEN IF offset + 2 >= Len(data) THEN VarintNone(offset)
                       ELSE VarintSome(unpack_unsigned(Slice(data, offset + 1, offset + 3), 2).val,
                                       offset + 3)
             ELSE IF first_byte = 252
                  THEN IF offset + 4 >= Len(data) THEN VarintNone(offset)
                       ELSE VarintSome(unpack_unsigned(Slice(data, offset + 1, offset + 5), 4).val,
                                       offset + 5)
             ELSE IF first_byte = 253
                  THEN IF offset + 8 >= Len(data) THEN VarintNone(offset)
                       ELSE VarintSome(unpack_unsigned(Slice(data, offset + 1, offset + 9), 8).val,
                                       offset + 9)
             ELSE VarintNone(offset)

\* "ERROR: Not enough data for <field>" / "ERROR: Invalid leader string length"
DecodeError(field) == [outcome |-> "error", field |-> field]

\* The function prints what it decodes; the record keeps what it printed on
\* the path to "Successfully decoded block header!": the fields, the option
\* tag it saw (-1 when no byte remained), the vector length it read and
\* "Bytes consumed".
decode_block_header(data, offset) ==
    LET p0 == offset IN
    IF p0 + 4 > Len(data) THEN DecodeError("version") ELSE
    LET version == unpack_unsigned(Slice(data, p0, p0 + 4), 4).val
        p1 == p0 + 4 IN
    IF p1 + 8 > Len(data) THEN DecodeError("height") ELSE
    LET height == unpack_unsigned(Slice(data, p1, p1 + 8), 8).val
        p2 == p1 + 8 IN
    IF p2 + 8 > Len(data) THEN DecodeError("timestamp") ELSE
    LET timestamp == unpack_q(Slice(data, p2, p2 + 8)).val
        p3 == p2 + 8 IN
    IF p3 + HashLen > Len(data) THEN DecodeError("previous_hash") ELSE
    LET previous_hash == Slice(data, p3, p3 + HashLen)
        p4 == p3 + HashLen IN
    IF p4 + HashLen > Len(data) THEN DecodeError("merkle_root") ELSE
    LET merkle_root == Slice(data, p4, p4 + HashLen)
        p5 == p4 + HashLen
        lv == read_varint(data, p5)
        leader_len == IntOf(lv.val)
        p6 == lv.pos IN
    IF lv.none \/ p6 + leader_len > Len(data) THEN DecodeError("leader") ELSE
    LET leader == bytes_decode_replace(Slice(data, p6, p6 + leader_len))
        p7 == p6 + leader_len IN
    IF p7 + 8 > Len(data) THEN DecodeError("block_reward") ELSE
    LET block_reward == unpack_unsigned(Slice(data, p7, p7 + 8), 8).val
        p8 == p7 + 8 IN
    IF p8 + HashLen > Len(data) THEN DecodeError("vrf_output") ELSE
    LET vrf_output == Slice(data, p8, p8 + HashLen)
        p9 == p8 + HashLen IN
    IF p9 + 16 > Len(data) THEN DecodeError("vrf_score") ELSE
    LET vrf_score == int_from_bytes(Slice(data, p9, p9 + 16))
        p10 == p9 + 16 IN
    IF p10 + HashLen > Len(data) THEN DecodeError("attestation_root") ELSE
    LET attestation_root == Slice(data, p10, p10 + HashLen)
        p11 == p10 + HashLen
        remaining == p11 < Len(data)
        option_tag == IF remaining THEN data[p11 + 1] ELSE -1
        vec == read_varint(data, p11 + 1)
        pos == IF remaining /\ option_tag = 1 THEN vec.pos ELSE p11
    IN  [outcome    |-> "success",
         header     |-> [version          |-> version,
                         height           |-> height,
                         timestamp        |-> timestamp,
                         previous_hash    |-> previous_hash,
                         merkle_root      |-> merkle_root,
                         leader           |-> leader,
                         block_reward     |-> block_reward,
                         vrf_output       |-> vrf_output,
                         vrf_score        |-> vrf_score,
                         attestation_root |-> attestation_root],
         option_tag |-> option_tag,
         vec_len    |-> IF remaining /\ option_tag = 1 THEN vec ELSE VarintNone(p11),
         consumed   |-> pos - offset]

(***************************************************************************)
(* Inputs.  The buffers and headers the functions are applied to.          *)
(***************************************************************************)
\* longest leader string drawn from Alphabet
MaxLeaderLen == 1

\* a record is cut at every field boundary and up to MaxSlack bytes around it
MaxSlack == 1

\* a record sits at offsets 0..MaxOffset of its buffer
MaxOffset == 2

\* record identifiers of a migrate range are 1..MaxId
MaxId == 3

\* code points of 1, 2, 3 and 4 UTF-8 bytes: A, e-acute, euro sign, U+1F600
Alphabet == {65, 233, 8364, 128512}

RECURSIVE StringsUpTo(_)
StringsUpTo(n) ==
    IF n = 0 THEN {<< >>}
    ELSE LET shorter == StringsUpTo(n - 1)
         IN  shorter \cup {Append(t, c) : t \in shorter, c \in Alphabet}

Leaders == StringsUpTo(MaxLeaderLen)

Unsigned(d) == [neg |-> FALSE, mag |-> d]

\* the header of the end-to-end scenario: version 1, height 42, timestamp
\* 1700000000, leader "node-A", reward 1000, score 123456789012345678901234567890
ScenarioHeader ==
    [version          |-> <<1>>,
     height           |-> <<42>>,
     timestamp        |-> Unsigned(<<0, 241, 83, 101>>),
     previous_hash    |-> Fill(0, HashLen),
     merkle_root      |-> Fill(17, HashLen),
     leader           |-> <<110, 111, 100, 101, 45, 65>>,
     block_reward     |-> <<232, 3>>,
     vrf_output       |-> Fill(34, HashLen),
     vrf_score        |-> <<210, 10, 63, 78, 238, 224, 115, 195, 246, 15, 233, 142, 1>>,
     attestation_root |-> Fill(51, HashLen)]

\* every field zero or empty
ZeroHeader ==
    [version          |-> << >>,
     height           |-> << >>,
     timestamp        |-> Unsigned(<< >>),
     previous_hash    |-> Fill(0, HashLen),
     merkle_root      |-> Fill(0, HashLen),
     leader           |-> << >>,
     block_reward     |-> << >>,
     vrf_output       |-> Fill(0, HashLen),
     vrf_score        |-> << >>,
     attestation_root |-> Fill(0, HashLen)]

\* every field at the top of its range, timestamp at the bottom (-2^63)
ExtremeHeader ==
    [version          |-> Fill(255, 4),
     height           |-> Fill(255, 8),
     timestamp        |-> [neg |-> TRUE, mag |-> Zeros(7) \o <<128>>],
     previous_hash    |-> Fill(255, HashLen),
     merkle_root      |-> Fill(255, HashLen),
     leader           |-> <<128512, 8364>>,
     block_reward     |-> Fill(255, 8),
     vrf_output       |-> Fill(255, HashLen),
     vrf_score        |-> Fill(255, 16),
     attestation_root |-> Fill(255, HashLen)]

\* headers every field of which is in the range of its type
InRangeHeaders ==
    {ScenarioHeader, ZeroHeader, ExtremeHeader,
     [ScenarioHeader EXCEPT !.timestamp = [neg |-> TRUE, mag |-> <<1>>]]}
    \cup {[ScenarioHeader EXCEPT !.leader = l] : l \in Leaders}

\* headers one field of which is out of range: version 2^32, timestamp 2^63,
\* vrf_score 2^128, a lone surrogate in the leader
OutOfRangeHeaders ==
    {[ScenarioHeader EXCEPT !.version = Zeros(4) \o <<1>>],
     [ScenarioHeader EXCEPT !.timestamp = Unsigned(Zeros(7) \o <<128>>)],
     [ScenarioHeader EXCEPT !.vrf_score = Zeros(16) \o <<1>>],
     [ScenarioHeader EXCEPT !.leader = <<65, 55296>>]}

\* the reference length prefix: the shortest of the 1/3/5/9-byte forms
VarintEncode(v) ==
    IF Len(v) = 0 THEN <<0>>
    ELSE IF Len(v) = 1 /\ v[1] < 251 THEN v
    ELSE IF Len(v) <= 2 THEN <<251>> \o v \o Zeros(2 - Len(v))
    ELSE IF Len(v) <= 4 THEN <<252>> \o v \o Zeros(4 - Len(v))
    ELSE <<253>> \o v \o Zeros(8 - Len(v))

\* a length prefix as the migration tool reads it (8 bytes) or as the
\* diagnostic decoder reads it (varint)
LenPrefix(form, n) ==
    IF form = "fixed8" THEN write_u64_le(Digits(n)).val ELSE VarintEncode(Digits(n))

\* the legacy encoding of header h with the given leader payload bytes
RecordBytes(h, form, payload) ==
    write_u32_le(h.version).val \o write_u64_le(h.height).val
    \o write_i64_le(h.timestamp).val \o h.previous_hash \o h.merkle_root
    \o LenPrefix(form, Len(payload)) \o payload
    \o write_u64_le(h.block_reward).val \o h.vrf_output
    \o write_u128_le(h.vrf_score).val \o h.attestation_root

\* the offsets at which the fields of such a record start, and its end
Boundaries(form, payload) ==
    LET l == 84 + Len(LenPrefix(form, Len(payload))) + Len(payload)
    IN  {0, 4, 12, 20, 52, 84, l, l + 8, l + 40, l + 56, l + 88}

Forms == {"fixed8", "varint"}

\* what may follow the fixed fields: nothing, an absent Option, a present
\* Option with its vector, a tag that is neither, a present Option cut short
Tails ==
    {<< >>, <<0>>, <<0, 7>>, <<1, 0>>, <<1, 2, 170, 187>>, <<1, 2, 170, 187, 7>>,
     <<1>>, <<1, 251, 0>>, <<2>>, <<255, 0>>}

\* leader payloads that are not UTF-8: a stray byte, a sequence cut short,
\* a stray continuation byte between letters, an overlong form
BadPayloads == {<<255>>, <<226, 130>>, <<65, 128, 66>>, <<192, 128>>}

NoArgs == [command |-> "", start |-> 0, end |-> 0]

Scenario(kind, h, form, payload, rec, tail, off, cut) ==
    [kind |-> kind, hdr |-> h, form |-> form, payload |-> payload,
     rec |-> rec, tail |-> tail, off |-> off, cut |-> cut, argv |-> NoArgs]

RecordScenario(h, form, payload, tail, off, cut) ==
    Scenario("record", h, form, payload, RecordBytes(h, form, payload), tail, off, cut)

Utf8(h) == str_encode(h.leader).val

\* the cuts of a record: at every field boundary and MaxSlack around it
CutPoints(form, payload) ==
    {k \in 0..(Max(Boundaries(form, payload))) :
        \E b \in Boundaries(form, payload) : k >= b - MaxSlack /\ k <= b + MaxSlack}

\* a record alone in its buffer, cut around each field boundary
CutScenarios ==
    UNION {{RecordScenario(h, form, Utf8(h), << >>, 0, k) : k \in CutPoints(form, Utf8(h))}
           : h \in InRangeHeaders, form \in Forms}

\* a whole record at an offset of a packed buffer, followed by a tail
PackedScenarios ==
    {RecordScenario(h, form, Utf8(h), tail, off,
                    Len(RecordBytes(h, form, Utf8(h))) + Len(tail)) :
        h \in InRangeHeaders, form \in Forms, tail \in Tails, off \in 0..MaxOffset}

\* a whole record whose leader payload is not UTF-8
BadPayloadScenarios ==
    {RecordScenario(ScenarioHeader, form, payload, << >>, 0,
                    Len(RecordBytes(ScenarioHeader, form, payload))) :
        form \in Forms, payload \in BadPayloads}

\* 0, 250, 251, 65535, 65536, 2^32 - 1, 2^32, 2^64 - 1
VarintValues ==
    {<< >>, <<250>>, <<251>>, <<255, 255>>, <<0, 0, 1>>, Fill(255, 4),
     <<0, 0, 0, 0, 1>>, Fill(255, 8)}

\* a reference encoding, whole or cut, alone or followed by a byte
VarintScenarios ==
    UNION {{Scenario("varint", ScenarioHeader, "varint", v, VarintEncode(v), tail, off, cut) :
               tail \in {<< >>, <<7>>}, off \in 0..MaxOffset,
               cut \in 0..(Len(VarintEncode(v)) + 1)}
           : v \in VarintValues}

\* sixteen bytes behind a first byte no form is defined for, and a longer
\* form than the value needs
RawVarintScenarios ==
    {Scenario("rawvarint", ScenarioHeader, "varint", << >>, raw, << >>, 0, Len(raw)) :
        raw \in {<<254>> \o Zeros(16), <<255>> \o Zeros(16), <<251, 5, 0>>}}

\* a header handed to the encoder
HeaderScenarios ==
    {Scenario("header", h, "fixed8", << >>, << >>, << >>, 0, 0) :
        h \in InRangeHeaders \cup OutOfRangeHeaders}

\* a byte vector handed to write_vec_u8
VectorScenarios ==
    {Scenario("vector", ScenarioHeader, "fixed8", d, << >>, << >>, 0, 0) :
        d \in {<< >>, <<170, 187>>, Fill(255, HashLen)}}

\* "migrate <start> <end>" on the command line
MigrateScenarios ==
    {[Scenario("cli", ScenarioHeader, "fixed8", << >>, << >>, << >>, 0, 0)
        EXCEPT !.argv = [command |-> "migrate", start |-> a, end |-> b]] :
        a \in 1..MaxId, b \in 1..MaxId}

\* the inspect command tries range(20) offsets after the key
ScanOffsets == 20

\* store bytes between the key and the record: 0..MaxGap of them
MaxGap == 2

RECURSIVE Decimal(_)
\* str(n) for n >= 0, as ASCII bytes
Decimal(n) == IF n < 10 THEN <<48 + n>> ELSE Decimal(n \div 10) \o <<48 + (n % 10)>>

\* f"block:{block_num}".encode()
old_key(block_num) == <<98, 108, 111, 99, 107, 58>> \o Decimal(block_num)

\* data.find(key): the lowest index at which key occurs, -1 when nowhere
bytes_find(d, key) ==
    LET hits == {i \in 0..(Len(d) - Len(key)) : Slice(d, i, i + Len(key)) = key}
    IN  IF hits = {} THEN -1 ELSE CHOOSE i \in hits : \A j \in hits : i <= j

\* a stored header whose merkle root is no text at all
StoredHeader == [ScenarioHeader EXCEPT !.merkle_root = Fill(255, HashLen)]

\* a db file: some store bytes, the key of block keynum, gap store bytes,
\* the record of a header of height recheight, then a tail
DbFile(keynum, gap, h, recheight, tail) ==
    <<3, 0, 9>> \o old_key(keynum) \o Fill(0, gap)
    \o RecordBytes([h EXCEPT !.height = Digits(recheight)], "fixed8", Utf8(h)) \o tail

\* the encodings standard output may have, and the code points each encodes
Encodings == {"utf-8", "latin-1", "ascii"}

encodable(cp, encoding) ==
    IF encoding = "ascii" THEN cp < 128
    ELSE IF encoding = "latin-1" THEN cp < 256
    ELSE ~IsSurrogate(cp)

\* print(text) raises UnicodeEncodeError when standard output cannot encode it
print_raises(text, encoding) ==
    \E i \in 1..Len(text) : ~encodable(text[i], encoding)

\* the check mark in the inspect command's success message
CheckMark == 10003

\* an invocation "inspect <block_num>" on a db file, with the encoding of
\* the standard output it writes to
InspectScenario(file, block_num, encoding) ==
    [Scenario("cli", ScenarioHeader, "fixed8", << >>, file, << >>, 0, Len(file))
        EXCEPT !.argv = [command |-> "inspect", start |-> block_num, end |-> 0,
                         stdout |-> encoding]]

\* "inspect <block_num>" on a db file: the record follows the key at a gap
\* inside or outside the scanned offsets, holds the requested height or
\* another one, and the requested key may be absent from the file
InspectScenarios ==
    {InspectScenario(DbFile(keynum, gap, h, recheight, tail), block_num, encoding) :
        keynum \in {7}, block_num \in {7, 8}, recheight \in {7, 42},
        gap \in (0..MaxGap) \cup {ScanOffsets - 1, ScanOffsets},
        h \in {StoredHeader, ZeroHeader, [StoredHeader EXCEPT !.leader = <<233>>]},
        tail \in {<< >>, Zeros(24)}, encoding \in Encodings}

Scenarios ==
    CutScenarios \cup PackedScenarios \cup BadPayloadScenarios
    \cup VarintScenarios \cup RawVarintScenarios \cup HeaderScenarios
    \cup VectorScenarios \cup MigrateScenarios \cup InspectScenarios

\* the buffer of a scenario: off bytes of other data, then the record and
\* its tail up to the cut
BufferOf(s) == Fill(65, s.off) \o Slice(s.rec \o s.tail, 0, s.cut)

(***************************************************************************)
(* The state machine: one input is drawn, and the functions are applied    *)
(* to it the way the tools chain them.                                     *)
(*   scn        the input drawn (what the caller passes, what the file     *)
(*              holds, the command line)                                   *)
(*   data       the byte buffer being read                                 *)
(*   pc         which call has returned                                    *)
(*   header     the header dictionary in hand                              *)
(*   ret        what the last reader or writer returned                    *)
(*   out        what serialize_new_block_header returned                   *)
(*   back       what parse_old_block_header returned on the migrated bytes *)
(*   exit_code  the status the command line tool exited with, -1 before    *)
(*   report     the outcome recorded per record identifier                 *)
(*   scan_offset  "offset", the loop variable of the inspect scan          *)
(*   attempts   the scan's attempts so far, as the command prints them:    *)
(*              the offset tried, whether the parse raised ("Failed: ..."),*)
(*              whether the loop was left there on a matching height       *)
(*   key_pos    "pos", where the inspect command found the key, else -1    *)
(***************************************************************************)
VARIABLES scn, data, pc, header, ret, out, back, exit_code, report,
          scan_offset, attempts, key_pos

vars == <<scn, data, pc, header, ret, out, back, exit_code, report, scan_offset, attempts, key_pos>>

NotCalled == [raised |-> FALSE, called |-> FALSE]

\* offset of the leader's length prefix in a record: 4 + 8 + 8 + 32 + 32
LeaderPos == 4 + 8 + 8 + HashLen + HashLen

Init ==
    /\ scn \in Scenarios
    /\ data = BufferOf(scn)
    /\ pc = "start"
    /\ header = scn.hdr
    /\ ret = NotCalled
    /\ out = NotCalled
    /\ back = NotCalled
    /\ exit_code = -1
    /\ report = << >>
    /\ scan_offset = 0
    /\ attempts = << >>
    /\ key_pos = -1

\* migrate_blocks.parse_old_block_header(data, pos) on the buffer
ParseOldBlockHeader ==
    /\ pc = "start"
    /\ scn.kind = "record"
    /\ LET r == parse_old_block_header(data, scn.off)
       IN  /\ ret' = r
           /\ pc' = IF r.raised THEN "parse_raised" ELSE "parsed"
           /\ header' = IF r.raised THEN header ELSE r.val
    /\ UNCHANGED <<scn, data, out, back, exit_code, report, scan_offset, attempts, key_pos>>

\* inspect_db.decode_block_header(data, offset) on the buffer
DecodeBlockHeader ==
    /\ pc = "start"
    /\ scn.kind = "record"
    /\ ret' = decode_block_header(data, scn.off)
    /\ pc' = "decoded"
    /\ UNCHANGED <<scn, data, header, out, back, exit_code, report, scan_offset, attempts, key_pos>>

\* inspect_db.read_varint(data, offset) on a buffer holding a length prefix
ReadVarint ==
    /\ pc = "start"
    /\ scn.kind \in {"varint", "rawvarint"}
    /\ ret' = read_varint(data, scn.off)
    /\ pc' = "varint_read"
    /\ UNCHANGED <<scn, data, header, out, back, exit_code, report, scan_offset, attempts, key_pos>>

\* migrate_blocks.write_string(s)
WriteString ==
    /\ pc = "start"
    /\ scn.kind = "header"
    /\ ret' = write_string(scn.hdr.leader)
    /\ pc' = "string_written"
    /\ UNCHANGED <<scn, data, header, out, back, exit_code, report, scan_offset, attempts, key_pos>>

\* migrate_blocks.write_vec_u8(data)
WriteVecU8 ==
    /\ pc = "start"
    /\ scn.kind = "vector"
    /\ ret' = write_vec_u8(scn.payload)
    /\ pc' = "vec_written"
    /\ UNCHANGED <<scn, data, header, out, back, exit_code, report, scan_offset, attempts, key_pos>>

\* migrate_blocks.serialize_new_block_header(header), on a header handed in
\* or on the one the legacy parser returned
SerializeNewBlockHeader ==
    /\ \/ pc = "start" /\ scn.kind = "header"
       \/ pc = "parsed"
    /\ out' = serialize_new_block_header(header)
    /\ pc' = "serialized"
    /\ UNCHANGED <<scn, data, header, ret, back, exit_code, report, scan_offset, attempts, key_pos>>

\* the legacy parser on the bytes the encoder produced
ParseMigrated ==
    /\ pc = "serialized"
    /\ ~out.raised
    /\ back' = parse_old_block_header(out.val, 0)
    /\ pc' = "reparsed"
    /\ UNCHANGED <<scn, data, header, ret, out, exit_code, report, scan_offset, attempts, key_pos>>

\* the diagnostic decoder's leader step (read_varint at the leader's length
\* prefix) on the bytes the encoder produced
ReadLeaderLength ==
    /\ pc = "serialized"
    /\ ~out.raised
    /\ ret' = read_varint(out.val, LeaderPos)
    /\ pc' = "leader_length_read"
    /\ UNCHANGED <<scn, data, header, out, back, exit_code, report, scan_offset, attempts, key_pos>>

\* migrate_blocks.py migrate <start> <end>: prints "Migration not yet
\* implemented" and exits with status 1
MainMigrate ==
    /\ pc = "start"
    /\ scn.kind = "cli"
    /\ scn.argv.command = "migrate"
    /\ exit_code' = 1
    /\ pc' = "exited"
    /\ UNCHANGED <<scn, data, header, ret, out, back, report, scan_offset, attempts, key_pos>>

\* where the block data is taken to start: right after the first occurrence
\* of the key, plus the offset being tried
DataStart(o) == key_pos + Len(old_key(scn.argv.start)) + o

\* migrate_blocks.py inspect <block_num>, up to the scan: the db file is
\* read and searched for the legacy key; the command exits with status 1
\* when the key is nowhere in it
MainInspect ==
    /\ pc = "start"
    /\ scn.kind = "cli"
    /\ scn.argv.command = "inspect"
    /\ key_pos' = bytes_find(data, old_key(scn.argv.start))
    /\ IF key_pos' = -1
       THEN pc' = "exited" /\ exit_code' = 1
       ELSE pc' = "scanning" /\ exit_code' = exit_code
    /\ scan_offset' = 0
    /\ UNCHANGED <<scn, data, header, ret, out, back, report, attempts>>

\* parse_old_block_header as the scan calls it, its progress prints
\* included: the leader is the one printed text that need not be ASCII
parse_and_print(d, pos, encoding) ==
    LET r == parse_old_block_header(d, pos)
    IN  IF ~r.raised /\ print_raises(r.val.leader, encoding)
        THEN Raise("UnicodeEncodeError")
        ELSE r

\* one pass of "for offset in range(20)", the whole try block: the legacy
\* parser is tried at the offset; on a parsed height equal to the block
\* number the success message is printed and the loop is left; whatever is
\* raised inside the try block, by the parser or by a print, is reported as
\* "Failed" and the loop continues; after the loop the command ends with
\* status 0.  ret holds what the parser's readers computed; the parser
\* returns it unless its print of the leader raises.
InspectAttempt ==
    /\ pc = "scanning"
    /\ ret' = parse_old_block_header(data, DataStart(scan_offset))
    /\ LET returned == ~ret'.raised /\ ~print_raises(ret'.val.leader, scn.argv.stdout)
           equal == returned /\ ret'.val.height = Digits(scn.argv.start)
           message_raised == equal /\ print_raises(<<10, CheckMark>>, scn.argv.stdout)
           break == equal /\ ~message_raised
           last == break \/ scan_offset + 1 = ScanOffsets
       IN  /\ header' = IF returned THEN ret'.val ELSE header
           /\ attempts' = Append(attempts,
                  [offset |-> scan_offset,
                   raised |-> ~returned \/ message_raised,
                   matched |-> break])
           /\ scan_offset' = IF last THEN scan_offset ELSE scan_offset + 1
           /\ pc' = IF last THEN "exited" ELSE pc
           /\ exit_code' = IF last THEN 0 ELSE exit_code
    /\ UNCHANGED <<scn, data, out, back, report, key_pos>>

Next ==
    \/ ParseOldBlockHeader
    \/ DecodeBlockHeader
    \/ ReadVarint
    \/ WriteString
    \/ WriteVecU8
    \/ SerializeNewBlockHeader
    \/ ParseMigrated
    \/ ReadLeaderLength
    \/ MainMigrate
    \/ MainInspect
    \/ InspectAttempt

Spec == Init /\ [][Next]_vars

(***************************************************************************)
(* Properties                                                              *)
(***************************************************************************)
\* the scenario holds a record in the given length-prefix form, alone at
\* offset 0, with a leader payload that is valid UTF-8
ValidRecordAlone(form) ==
    /\ scn.kind = "record"
    /\ scn.form = form
    /\ scn.tail = << >>
    /\ scn.off = 0
    /\ ~bytes_decode_strict(scn.payload).raised

\* the offsets at which a field of the scenario's record starts
FieldStarts == Boundaries(scn.form, scn.payload) \ {Len(scn.rec)}

ParseReturned == pc \in {"parsed", "parse_raised"}

\* C1: a valid V1 record (8-byte length prefix, as parse_old_block_header
\* reads it) cut at the start of any of its fields makes
\* parse_old_block_header raise: it never returns a header dictionary.
C1_TruncationDetected ==
    (ParseReturned /\ ValidRecordAlone("fixed8") /\ scn.cut \in FieldStarts)
        => pc = "parse_raised"

\* the buffer is exactly the reference encoding of the scenario's value
WholeVarintAlone ==
    /\ scn.kind = "varint"
    /\ scn.off = 0
    /\ data = VarintEncode(scn.payload)

\* bytes a first byte announces, itself included; the bytes 254 and 255
\* announce nothing beyond themselves
VarintNeed(first_byte) ==
    IF first_byte = 251 THEN 3
    ELSE IF first_byte = 252 THEN 5
    ELSE IF first_byte = 253 THEN 9
    ELSE 1

\* fewer bytes from offset than the first byte there announces (none at all
\* when there is no first byte)
VarintTruncated(d, offset) ==
    \/ offset >= Len(d)
    \/ Len(d) - offset < VarintNeed(d[offset + 1])

VarintInverts ==
    (pc = "varint_read" /\ WholeVarintAlone)
        => /\ ret = VarintSome(scn.payload, Len(data))
           /\ Len(data) \in {1, 3, 5, 9}

\* C2 as stated: read_varint on exactly the reference encoding of v returns
\* (v, len) with len in {1,3,5,9}, and read_varint reports failure only when
\* the buffer holds fewer bytes than the first byte implies.
C2_VarintOriginal ==
    /\ VarintInverts
    /\ (pc = "varint_read" /\ ret.none) => VarintTruncated(data, scn.off)

\* C2 amended: as above, but read_varint also reports failure when the first
\* byte is 254 or 255, whatever follows it.
C2_VarintInvertsEncoding ==
    /\ VarintInverts
    /\ (pc = "varint_read" /\ ret.none)
          => \/ VarintTruncated(data, scn.off)
             \/ data[scn.off + 1] \in {254, 255}
    /\ (pc = "varint_read" /\ ret.none) => ret.pos = scn.off

\* the 9-byte form of 2^64 - 1 was read back
C2_Witness ==
    /\ pc = "varint_read"
    /\ WholeVarintAlone
    /\ Len(data) = 9
    /\ ret = VarintSome(Fill(255, 8), 9)

RECURSIVE Concat(_)
Concat(ss) == IF ss = << >> THEN << >> ELSE Head(ss) \o Concat(Tail(ss))

\* the ten V1 fields of h, each in its V1 encoding, in V1 order
V1Fields(h) ==
    <<pack_unsigned(h.version, 4).val,
      pack_unsigned(h.height, 8).val,
      pack_q(h.timestamp).val,
      h.previous_hash,
      h.merkle_root,
      write_string(h.leader).val,
      pack_unsigned(h.block_reward, 8).val,
      h.vrf_output,
      int_to_bytes(h.vrf_score, 16).val,
      h.attestation_root>>

\* four zero u32 tier counts, two empty vectors, the absent Option byte
AppendedDefaults ==
    Zeros(4) \o Zeros(4) \o Zeros(4) \o Zeros(4)
    \o write_vec_u8(<< >>).val \o write_vec_u8(<< >>).val \o <<0>>

\* C3: write_string and write_vec_u8 prefix the payload with the shortest
\* varint of its byte length, so read_varint at the leader position of the
\* encoder's output returns the leader's byte length and the position of
\* its first byte.
C3_ShortestLengthPrefix ==
    /\ (pc = "string_written" /\ ~ret.raised)
          => ret.val = VarintEncode(Digits(Len(Utf8(scn.hdr)))) \o Utf8(scn.hdr)
    /\ pc = "vec_written"
          => ret.val = VarintEncode(Digits(Len(scn.payload))) \o scn.payload
    /\ pc = "leader_length_read"
          => LET n == Len(Utf8(header))
             IN  /\ ~ret.none
                 /\ ret.val = Digits(n)
                 /\ Slice(out.val, ret.pos, ret.pos + n) = Utf8(header)
                 /\ Slice(out.val, ret.pos + n, Len(out.val))
                       = Concat(SubSeq(V1Fields(header), 7, 10)) \o AppendedDefaults

\* the header was parsed from the buffer without reading past its end
ParsedWithinBuffer == scn.kind = "record" /\ ~ret.raised /\ ret.pos <= Len(data)

\* C4: the encoder accepts every header the legacy parser returns; its
\* output is the V1 fields in V1 order and encoding, followed by the
\* appended defaults and nothing else; for a header parsed from a buffer,
\* the bytes that were parsed are a prefix of the output, unchanged.
C4_PureAppend ==
    /\ (pc = "serialized" /\ scn.kind = "record") => ~out.raised
    /\ (pc = "serialized" /\ ~out.raised)
          => /\ out.val = Concat(V1Fields(header)) \o AppendedDefaults
             /\ ParsedWithinBuffer
                   => /\ Slice(out.val, 0, ret.pos - scn.off) = Slice(data, scn.off, ret.pos)
                      /\ Slice(out.val, ret.pos - scn.off, Len(out.val)) = AppendedDefaults

\* a header parsed from a packed buffer, with a non-empty leader, was encoded
C4_Witness ==
    /\ pc = "serialized"
    /\ ~out.raised
    /\ ParsedWithinBuffer
    /\ scn.off > 0
    /\ header.leader # << >>

\* C5: migrate over [start, end] records one outcome for every identifier
\* of the range, whatever fails on the way.
C5_EveryIdentifierHasOutcome ==
    (pc = "exited" /\ scn.argv.command = "migrate")
        => \A id \in scn.argv.start..scn.argv.end : id \in DOMAIN report

\* what a well-formed tail adds to the consumed count: nothing when there is
\* no tail, 1 for an absent Option, 1 + prefix + payload for a present one
TailLength(tail) ==
    IF tail = << >> THEN 0
    ELSE IF tail[1] = 0 THEN 1
    ELSE LET v == read_varint(tail, 1) IN v.pos + IntOf(v.val)

WellFormedTail(tail) ==
    \/ tail = << >>
    \/ tail[1] = 0
    \/ /\ tail[1] = 1
       /\ ~read_varint(tail, 1).none
       /\ read_varint(tail, 1).pos + IntOf(read_varint(tail, 1).val) <= Len(tail)

\* C7: the consumed count decode_block_header reports is the full encoded
\* length of the record, trailing Option included, and stays inside the
\* buffer; the position parse_old_block_header returns is never past the
\* end of the buffer.
C7_ExactConsumed ==
    /\ (pc = "decoded" /\ ret.outcome = "success" /\ scn.form = "varint"
          /\ scn.cut = Len(scn.rec) + Len(scn.tail) /\ WellFormedTail(scn.tail)
          /\ ~bytes_decode_strict(scn.payload).raised)
          => /\ ret.consumed = Len(scn.rec) + TailLength(scn.tail)
             /\ scn.off + ret.consumed <= Len(data)
    /\ pc = "parsed" => ret.pos <= Len(data)

\* C8: decode_block_header reaches "Successfully decoded block header" only
\* when no byte follows attestation_root or the byte that follows is 0 or 1.
C8_InvalidTagRejected ==
    (pc = "decoded" /\ ret.outcome = "success") => ret.option_tag \in {-1, 0, 1}

\* the leader step of decode_block_header on the buffer: the declared
\* length it reads at the leader position, and whether the buffer holds that
\* many bytes of valid UTF-8 behind it
DecoderLeaderLength == read_varint(data, scn.off + LeaderPos)

DecoderLeaderBad ==
    LET n == IntOf(DecoderLeaderLength.val)
        p == DecoderLeaderLength.pos
    IN  \/ p + n > Len(data)
        \/ bytes_decode_strict(Slice(data, p, p + n)).raised

\* the same for read_string in parse_old_block_header
ParserLeaderLength == read_u64_le(data, scn.off + LeaderPos)

ParserLeaderBad ==
    LET n == IntOf(ParserLeaderLength.val)
        p == ParserLeaderLength.pos
    IN  \/ p + n > Len(data)
        \/ bytes_decode_strict(Slice(data, p, p + n)).raised

\* C9: in both decoders, once the declared leader length n is read, the
\* decode fails when fewer than n bytes remain or the n bytes are not valid
\* UTF-8; no header with a shortened or patched-up leader comes out.
C9_LeaderCompleteAndValid ==
    /\ (pc = "decoded" /\ Len(data) >= scn.off + LeaderPos
          /\ ~DecoderLeaderLength.none /\ DecoderLeaderBad)
          => ret.outcome = "error"
    /\ (ParseReturned /\ Len(data) >= scn.off + LeaderPos
          /\ ~ParserLeaderLength.raised /\ ParserLeaderBad)
          => pc = "parse_raised"

\* every field of h is in the range of its type
InRange(h) ==
    /\ Len(h.version) <= 4
    /\ Len(h.height) <= 8
    /\ Len(h.block_reward) <= 8
    /\ Len(h.vrf_score) <= 16
    /\ ~pack_q(h.timestamp).raised
    /\ ~str_encode(h.leader).raised
    /\ \A hash \in {h.previous_hash, h.merkle_root, h.vrf_output, h.attestation_root} :
          Len(hash) = HashLen

Scanned ==
    /\ scn.kind = "cli"
    /\ scn.argv.command = "inspect"
    /\ pc \in {"scanning", "exited"}
    /\ key_pos # -1

\* the parse at offset o after the key returns a header whose height is
\* the requested block number
MatchesAt(o) ==
    LET r == parse_and_print(data, DataStart(o), scn.argv.stdout)
    IN  ~r.raised /\ r.val.height = Digits(scn.argv.start)

FirstMatches == {o \in 0..(ScanOffsets - 1) : MatchesAt(o) /\ \A q \in 0..(o - 1) : ~MatchesAt(q)}

\* C11: after the key is found the inspect command tries the legacy parser
\* at offsets 0, 1, 2, ... after the key, in that order and without gaps;
\* a parse that raises is followed by the next offset; the scan ends at the
\* first offset whose parsed height is the requested block number, or after
\* offset 19: no offset above the first match is tried, every offset below
\* it was, and there are at most 20 attempts.
C11_OrderedScan ==
    Scanned
        => /\ Len(attempts) <= ScanOffsets
           /\ \A i \in 1..Len(attempts) :
                 /\ attempts[i].offset = i - 1
                 /\ \A q \in 0..(i - 2) : ~MatchesAt(q)
           /\ pc = "scanning"
                 => /\ scan_offset = Len(attempts)
                    /\ scan_offset < ScanOffsets
           /\ pc = "exited"
                 => /\ \A o \in FirstMatches : Len(attempts) = o + 1
                    /\ FirstMatches = {} => Len(attempts) = ScanOffsets

====
